---- MODULE Spec2Model ----
(***************************************************************************)
(* Model of app.py, the ThreatLens-AI Streamlit front end.                 *)
(*                                                                         *)
(* The script is executed top to bottom on every user interaction; only    *)
(* st.session_state survives from one execution to the next.  The model    *)
(* follows one browser session: the user's widget interactions, the steps  *)
(* of one script execution, and the provider state those steps touch.      *)
(*                                                                         *)
(* Python values are encoded as tuples so that they can be compared:       *)
(* a str or bytes value is the tuple of its characters ("" is <<>>), None   *)
(* is <<"None">> and True is <<"True">>, which are no character tuples.     *)
(***************************************************************************)
EXTENDS Integers, Sequences, FiniteSets, TLC

\* ---------------------------------------------------------------- bounds
MaxRuns == 2        \* clicks on "Analyse Repository" in one session
MaxFrags == 2       \* text fragments streamed by one run
MaxSessions == 2    \* browser sessions served by the process, one after another
MaxStreamRuns == 1  \* runs of the process, counted from the first, whose stream carries text

\* ------------------------------------------------------- Python encodings
None == <<"None">>
True == <<"True">>
Unbound == <<"unbound">>      \* a script-level name that was never assigned
\* truth value of None, a str or bytes, or True
Truthy(v) == v \notin {None, <<>>}
\* v or d
Or(v, d) == IF Truthy(v) THEN v ELSE d

Digits == <<"0", "1", "2", "3", "4", "5", "6", "7", "8", "9">>
Alnum ==
    {"a","b","c","d","e","f","g","h","i","j","k","l","m","n","o","p","q","r","s","t","u","v","w","x","y","z",
     "A","B","C","D","E","F","G","H","I","J","K","L","M","N","O","P","Q","R","S","T","U","V","W","X","Y","Z",
     "0","1","2","3","4","5","6","7","8","9"}

RECURSIVE ToChars(_)
ToChars(n) == IF n < 10 THEN <<Digits[n + 1]>>
              ELSE ToChars(n \div 10) \o <<Digits[(n % 10) + 1]>>

FilePrefix == <<"f", "i", "l", "e", "-">>
\* identifiers handed out by the provider
FileId(n) == FilePrefix \o ToChars(n)
ThreadId(n) == <<"t", "h", "r", "e", "a", "d", "_">> \o ToChars(n)
AssistantId(n) == <<"a", "s", "s", "t", "_">> \o ToChars(n)
\* bytes served by the provider for a file: distinct files, distinct bytes
Content(fid) == <<"#">> \o fid

REPORT_NAME ==
    <<"M", "e", "d", "i", "c", "a", "l", "-", "D", "i", "a", "g", "n", "o", "s", "i",
      "s", "-", "P", "r", "o", "j", "e", "c", "t", "-", "R", "e", "p", "o", "r", "t",
      ".", "m", "d">>

\* ------------------------------------------------------------ str helpers
\* s.endswith(suffix)
EndsWith(s, suffix) ==
    /\ Len(s) >= Len(suffix)
    /\ SubSeq(s, Len(s) - Len(suffix) + 1, Len(s)) = suffix

MdSuffix == <<".", "m", "d">>

\* positions at which file-[a-zA-Z0-9]+ can start in s
MatchStarts(s) ==
    {i \in 1..Len(s) :
        /\ s[i] = Head(FilePrefix)
        /\ i + Len(FilePrefix) <= Len(s)
        /\ SubSeq(s, i, i + Len(FilePrefix) - 1) = FilePrefix
        /\ s[i + Len(FilePrefix)] \in Alnum}

\* last position of the greedy run of alphanumerics that starts at i
RECURSIVE AlnumEnd(_, _)
AlnumEnd(s, i) == IF i + 1 <= Len(s) /\ s[i + 1] \in Alnum
                  THEN AlnumEnd(s, i + 1) ELSE i

Min(S) == CHOOSE i \in S : \A j \in S : i <= j

\* pattern.search(s): the leftmost match, as match.group(0), or None
PatternSearch(s) ==
    IF MatchStarts(s) = {} THEN None
    ELSE LET i == Min(MatchStarts(s))
         IN SubSeq(s, i, AlnumEnd(s, i + Len(FilePrefix)))

\* concatenation of a sequence of strings
RECURSIVE Concat(_)
Concat(ss) == IF ss = <<>> THEN <<>> ELSE Head(ss) \o Concat(Tail(ss))

\* ----------------------------------------------------- provider messages
\* A message is [attachments |-> <<[file_id, filename], ...>>, text |-> str].
\* str(msg) prints the fields of the message in declaration order, the
\* attachments before the content.
AttStr(att) ==
    <<"f", "i", "l", "e", "_", "i", "d", "=">>
    \o (IF att.file_id = None THEN <<"N", "o", "n", "e">>
        ELSE <<"'">> \o att.file_id \o <<"'">>)
    \o <<" ">>

StrMsg(msg) ==
    Concat([i \in 1..Len(msg.attachments) |-> AttStr(msg.attachments[i])])
    \o msg.text

Msg(atts, text) == [attachments |-> atts, text |-> text]
Att(fid, name) == [file_id |-> fid, filename |-> name]

PlainText == <<"o", "k">>

\* messages.list is called without a limit and only .data is read: the
\* provider's first page, the newest PageLimit messages
PageLimit == 20
ListPage(msgs) == SubSeq(msgs, 1, IF Len(msgs) < PageLimit THEN Len(msgs) ELSE PageLimit)

\* what the assistant can leave in the thread during a run that generates
\* the file f: nothing, one message, or a page full of plain messages
Replies(f) ==
    { <<>>,
      [i \in 1..PageLimit |-> Msg(<<>>, PlainText)],
      <<Msg(<<Att(f, <<"r", ".", "m", "d">>)>>, PlainText)>>,
      <<Msg(<<Att(f, <<"m", "d">>)>>, PlainText)>>,
      <<Msg(<<>>, <<"s", "e", "e", " ">> \o f \o <<".">>)>>,
      <<Msg(<<Att(None, None), Att(f, <<"R", ".", "m", "d">>)>>,
            <<"(">> \o FileId(0) \o <<")">>)>> }

\* the prompt box keeps its pre-filled text
DEFAULT_PROMPT ==
    <<"P", "l", "e", "a", "s", "e", " ", "p", "r", "o", "c", "e", "s", "s", " ", "t",
      "h", "i", "s", " ", "P", "r", "o", "j", "e", "c", "t", " ", "r", "e", "p", "o",
      "s", "i", "t", "o", "r", "y", " ", "(", "M", "e", "d", "i", "c", "a", "l", "-",
      "D", "i", "a", "g", "n", "o", "s", "i", "s", "-", "m", "a", "i", "n", ".", "z",
      "i", "p", ")", " ", "a", "n", "d", " ", "g", "e", "n", "e", "r", "a", "t", "e",
      " ", "r", "e", "p", "o", "r", "t", " ", "i", "n", " ", "m", "d", " ", "a", "n",
      "d", " ", "d", "o", "w", "n", "l", "o", "a", "d", " ", "t", "h", "e", " ", "f",
      "i", "l", "e", ".">>

\* ------------------------------------------------------------------ state
VARIABLES
    session_state,  \* st.session_state: a function on the keys present
    zip_file,       \* the file uploader holds an archive
    user_prompt,    \* content of the prompt box
    run_btn,        \* value of the Analyse button in this execution
    reset_btn,      \* value of the Reset button in this execution
    resetShown,     \* the Reset button is on the page
    pc,             \* position of the script, "idle" between executions
    thread,         \* script variable thread (its id)
    md_file_id,     \* script variable md_file_id
    assistant,      \* script variable assistant (its id)
    cache,          \* st.cache_resource entry of _get_or_create_assistant
    assistants,     \* provider: number of assistants created
    buffer,         \* StreamHandler.buffer
    box,            \* values pushed to output_container, in order
    files,          \* provider: identifiers of the stored files
    messages,       \* provider: thread id -> messages, newest first
    tool_files,     \* provider: thread id -> code interpreter file_ids
    nextId,         \* provider: number of the next identifier
    calls,          \* provider calls issued by this execution, in order
    outcome,        \* how the last execution ended
    hist            \* bookkeeping about the current run, for the properties

vars == <<session_state, zip_file, user_prompt, run_btn, reset_btn, resetShown,
          pc, thread, md_file_id, buffer, box, files, messages, tool_files,
          nextId, calls, outcome, hist, assistant, cache, assistants>>

widgets == <<zip_file, user_prompt, run_btn, reset_btn>>
provider == <<files, messages, tool_files, nextId>>
handler == <<buffer, box>>
registry == <<assistant, cache, assistants>>

Keys == {"thread_id", "file_id", "run_finished", "report_bytes", "report_name"}
EmptySession == [k \in {} |-> None]
NoneSession == [k \in Keys |-> None]

\* st.session_state.<k> when the key may have been deleted
Get(ss, k) == IF k \in DOMAIN ss THEN ss[k] ELSE None

Call(op, arg) == [op |-> op, arg |-> arg]

Statuses == {"completed", "failed", "cancelled"}

NoHist == [runs |-> 0,          \* Analyse clicks so far
           sessions |-> 1,       \* browser sessions so far
           pre |-> EmptySession, \* session state when the execution began
           frags |-> <<>>,       \* delta.value of the fragments received
           status |-> "none",    \* terminal state of the streamed run
           listed |-> <<>>,      \* messages.data seen by the extraction
           gen |-> None,         \* file generated by the run
           created |-> 0,        \* successful threads.create calls since reset
           createCalls |-> 0,    \* threads.create calls since reset
           first_thread |-> None, \* first thread id stored since reset
           resets |-> 0,         \* completed resets
           cleared |-> FALSE,    \* the reset handler ran in this execution
           cleanup |-> <<>>,     \* its deletion requests and their outcomes
           cache_pre |-> None,   \* the cache entry when the execution began
           uploads |-> {},       \* archive handles uploaded since the last reset
           report_of |-> None]   \* the archive of the run that stored the report

Init ==
    /\ session_state = EmptySession
    /\ zip_file = FALSE
    /\ user_prompt = DEFAULT_PROMPT
    /\ run_btn = FALSE
    /\ reset_btn = FALSE
    /\ resetShown = FALSE
    /\ pc = "start"
    /\ thread = Unbound
    /\ md_file_id = Unbound
    /\ buffer = <<>>
    /\ box = <<>>
    /\ files = {}
    /\ messages = [t \in {} |-> <<>>]
    /\ tool_files = [t \in {} |-> <<>>]
    /\ nextId = 1
    /\ calls = <<>>
    /\ outcome = "running"
    /\ hist = NoHist
    /\ assistant = Unbound
    /\ cache = None
    /\ assistants = 0

\* a fresh execution of the script: new namespace, nothing called yet
Restart(h) ==
    /\ pc' = "start"
    /\ thread' = Unbound
    /\ md_file_id' = Unbound
    /\ buffer' = <<>>
    /\ box' = <<>>
    /\ calls' = <<>>
    /\ outcome' = "running"
    /\ assistant' = Unbound
    /\ hist' = [h EXCEPT !.frags = <<>>, !.status = "none", !.listed = <<>>,
                         !.gen = None, !.cleared = FALSE,
                         !.cleanup = <<>>, !.cache_pre = cache,
                         !.uploads = IF h.cleared THEN {} ELSE @]

\* where the script is after an exception raised at a step: nothing in the
\* script catches it, so the execution is over
AfterFailure_Continue(step) ==
    CASE step = "upload" -> "thread"
      [] step = "thread" -> "attach"
      [] step = "attach" -> "post"
      [] step = "post" -> "run"
      [] step = "run" -> "stream"
      [] step = "stream" -> "extract"
      [] OTHER -> "idle"
AfterFailure(step) == "idle"

\* an exception leaves the script: the execution ends where it is
Raise ==
    /\ pc' = AfterFailure(pc)
    /\ outcome' = "uncaught"
    /\ resetShown' = FALSE

\* ------------------------------------------------------------ the user
\* the user puts an archive into the uploader
ChooseZip ==
    /\ pc = "idle"
    /\ ~zip_file
    /\ zip_file' = TRUE
    /\ run_btn' = FALSE
    /\ reset_btn' = FALSE
    /\ Restart(hist)
    /\ UNCHANGED <<session_state, user_prompt, resetShown, provider, cache, assistants>>

\* an interaction that clicks no button (the prompt box loses focus, the
\* page is reloaded in place): the script is executed again
Rerun ==
    /\ pc = "idle"
    /\ run_btn' = FALSE
    /\ reset_btn' = FALSE
    /\ Restart(hist)
    /\ UNCHANGED <<session_state, zip_file, user_prompt, resetShown, provider, cache, assistants>>

\* the browser session ends and another one opens on the same process: its
\* session state and widgets are new, the provider and the cache are not
NewSession ==
    /\ pc = "idle"
    /\ hist.sessions < MaxSessions
    /\ session_state' = EmptySession
    /\ zip_file' = FALSE
    /\ user_prompt' = DEFAULT_PROMPT
    /\ run_btn' = FALSE
    /\ reset_btn' = FALSE
    /\ resetShown' = FALSE
    /\ Restart([hist EXCEPT !.sessions = @ + 1, !.pre = EmptySession,
                            !.created = 0, !.createCalls = 0,
                            !.first_thread = None, !.resets = 0,
                            !.uploads = {}, !.report_of = None])
    /\ UNCHANGED <<provider, cache, assistants>>

\* the disabled argument of the Analyse button, line 112
RunDisabled(zf) == ~zf

\* the Analyse button, line 112: disabled while no archive is chosen
ClickRun ==
    /\ pc = "idle"
    /\ ~RunDisabled(zip_file)
    /\ hist.runs < MaxRuns
    /\ run_btn' = TRUE
    /\ reset_btn' = FALSE
    /\ Restart([hist EXCEPT !.runs = @ + 1])
    /\ UNCHANGED <<session_state, zip_file, user_prompt, resetShown, provider, cache, assistants>>

\* the Reset button, line 227: only there when the last execution drew it
ClickReset ==
    /\ pc = "idle"
    /\ resetShown
    /\ run_btn' = FALSE
    /\ reset_btn' = TRUE
    /\ Restart(hist)
    /\ UNCHANGED <<session_state, zip_file, user_prompt, resetShown, provider, cache, assistants>>

\* ----------------------------------------------------------- the script
\* lines 54-89: the cached function runs its body only when the cache holds
\* no entry; an exception of the body is not cached and leaves the script
NeedsAssistant_Always(entry) == TRUE
NeedsAssistant(entry) == entry = None
GetOrCreateAssistant ==
    /\ pc = "start"
    /\ IF NeedsAssistant(cache)
       THEN /\ calls' = Append(calls, Call("assistants.create", None))
            /\ \E ok \in BOOLEAN :
                IF ok
                THEN /\ assistants' = assistants + 1
                     /\ cache' = AssistantId(assistants + 1)
                     /\ assistant' = AssistantId(assistants + 1)
                     /\ pc' = "init"
                     /\ UNCHANGED <<outcome, resetShown>>
                ELSE /\ pc' = "idle"
                     /\ outcome' = "startup"
                     /\ resetShown' = FALSE
                     /\ UNCHANGED registry
       ELSE /\ assistant' = cache
            /\ pc' = "init"
            /\ UNCHANGED <<calls, outcome, resetShown, cache, assistants>>
    /\ UNCHANGED <<widgets, session_state, thread, md_file_id, handler, provider, hist>>

\* lines 94-102 and the guard of line 120
SessionInit ==
    /\ pc = "init"
    /\ session_state' = [k \in Keys |-> Get(session_state, k)]
    /\ pc' = IF run_btn /\ zip_file THEN "upload" ELSE "preview"
    /\ hist' = [hist EXCEPT !.pre = session_state']
    /\ UNCHANGED <<registry, widgets, resetShown, thread, md_file_id, handler, provider,
                   calls, outcome>>

\* lines 125-127
Upload ==
    /\ pc = "upload"
    /\ \E ok \in BOOLEAN :
        IF ok
        THEN /\ files' = files \union {FileId(nextId)}
             /\ nextId' = nextId + 1
             /\ session_state' = [session_state EXCEPT !.file_id = FileId(nextId)]
             /\ calls' = Append(calls, Call("files.create", FileId(nextId)))
             /\ hist' = [hist EXCEPT !.uploads = @ \union {FileId(nextId)}]
             /\ pc' = "thread"
             /\ UNCHANGED <<outcome, resetShown>>
        ELSE /\ calls' = Append(calls, Call("files.create", None))
             /\ Raise
             /\ UNCHANGED <<files, nextId, session_state, hist>>
    /\ UNCHANGED <<registry, widgets, thread, md_file_id, handler, messages, tool_files>>

\* lines 132-136
NeedsThread_Always(ss) == TRUE
NeedsThread(ss) == Get(ss, "thread_id") = None
AcquireThread ==
    /\ pc = "thread"
    /\ \E ok \in BOOLEAN :
        IF NeedsThread(session_state)
        THEN /\ calls' = Append(calls, Call("threads.create", None))
             /\ IF ok
                THEN /\ messages' = messages @@ (ThreadId(nextId) :> <<>>)
                     /\ tool_files' = tool_files @@ (ThreadId(nextId) :> <<>>)
                     /\ nextId' = nextId + 1
                     /\ session_state' =
                            [session_state EXCEPT !.thread_id = ThreadId(nextId)]
                     /\ thread' = ThreadId(nextId)
                     /\ hist' = [hist EXCEPT
                            !.createCalls = @ + 1, !.created = @ + 1,
                            !.first_thread = IF @ = None THEN ThreadId(nextId) ELSE @]
                     /\ pc' = "attach"
                     /\ UNCHANGED <<outcome, resetShown>>
                ELSE /\ hist' = [hist EXCEPT !.createCalls = @ + 1]
                     /\ Raise
                     /\ UNCHANGED <<messages, tool_files, nextId, session_state, thread>>
        ELSE /\ calls' = Append(calls, Call("threads.retrieve", session_state.thread_id))
             /\ IF ok /\ session_state.thread_id \in DOMAIN messages
                THEN /\ thread' = session_state.thread_id
                     /\ pc' = "attach"
                     /\ UNCHANGED <<outcome, resetShown>>
                ELSE /\ Raise
                     /\ UNCHANGED thread
             /\ UNCHANGED <<messages, tool_files, nextId, session_state, hist>>
    /\ UNCHANGED <<registry, widgets, md_file_id, handler, files>>

\* line 141: the code-interpreter file list the update leaves on the thread
ToolFilesAfter_Append(old, fid) == old \o <<fid>>
ToolFilesAfter(old, fid) == <<fid>>

\* lines 139-142
AttachFile ==
    /\ pc = "attach"
    /\ calls' = Append(calls, Call("threads.update", <<session_state.file_id>>))
    /\ \E ok \in BOOLEAN :
        IF ok
        THEN /\ tool_files' = [tool_files EXCEPT
                                 ![thread] = ToolFilesAfter(@, session_state.file_id)]
             /\ pc' = "post"
             /\ UNCHANGED <<outcome, resetShown>>
        ELSE /\ Raise
             /\ UNCHANGED tool_files
    /\ UNCHANGED <<registry, widgets, session_state, thread, md_file_id, handler, files,
                   messages, nextId, hist>>

\* lines 147-151
PostMessage ==
    /\ pc = "post"
    /\ calls' = Append(calls, Call("messages.create", user_prompt))
    /\ \E ok \in BOOLEAN :
        IF ok
        THEN /\ messages' = [messages EXCEPT ![thread] = <<Msg(<<>>, user_prompt)>> \o @]
             /\ pc' = "run"
             /\ UNCHANGED <<outcome, resetShown>>
        ELSE /\ Raise
             /\ UNCHANGED messages
    /\ UNCHANGED <<registry, widgets, session_state, thread, md_file_id, handler, files,
                   tool_files, nextId, hist>>

\* lines 168-174: StreamHandler.__init__ and the call that opens the stream
StartStream ==
    /\ pc = "run"
    /\ buffer' = <<>>
    /\ calls' = Append(calls, Call("runs.stream", thread))
    /\ \E ok \in BOOLEAN :
        IF ok
        THEN /\ pc' = "stream"
             /\ UNCHANGED <<outcome, resetShown>>
        ELSE Raise
    /\ UNCHANGED <<registry, widgets, session_state, thread, md_file_id, box, provider, hist>>

\* values of delta.value
DeltaValues == {None, <<"a">>, <<"b">>}

\* lines 164-166: one text fragment arrives.  A stream carries at most
\* MaxFrags fragments, and only the first MaxStreamRuns runs carry any.
BufferAfter_Delta(buf, value) == Or(value, <<>>)
BufferAfter(buf, value) == buf \o Or(value, <<>>)
OnTextDelta ==
    /\ pc = "stream"
    /\ Len(hist.frags) < MaxFrags
    /\ hist.runs <= MaxStreamRuns
    /\ \E value \in DeltaValues :
        /\ buffer' = BufferAfter(buffer, value)
        /\ box' = Append(box, buffer')
        /\ hist' = [hist EXCEPT !.frags = Append(@, value)]
    /\ UNCHANGED <<registry, widgets, session_state, resetShown, pc, thread, md_file_id,
                   provider, calls, outcome>>

\* the file f is named by the reply r
Names(r, f) == \E i \in 1..Len(r) : PatternSearch(StrMsg(r[i])) = f

\* line 175: the stream ends, with the run in a terminal state or by an
\* error.  The handler stays bound and the placeholder keeps what was pushed.
UntilDone ==
    /\ pc = "stream"
    /\ \/ /\ pc' = "ended"
          /\ UNCHANGED <<outcome, resetShown>>
       \/ Raise
    /\ UNCHANGED <<registry, widgets, session_state, thread, md_file_id, handler,
                   provider, calls, hist>>

\* what the run that ended has left at the provider: its terminal state and
\* its messages in the thread.  The script looks at neither before line 184.
RunResult ==
    /\ pc = "ended"
    /\ \E st \in Statuses, r \in Replies(FileId(nextId)) :
         LET made == Names(r, FileId(nextId)) IN
         /\ messages' = [messages EXCEPT ![thread] = r \o @]
         /\ files' = IF made THEN files \union {FileId(nextId)} ELSE files
         /\ nextId' = IF made THEN nextId + 1 ELSE nextId
         /\ hist' = [hist EXCEPT !.status = st,
                       !.gen = IF made THEN FileId(nextId) ELSE None]
    /\ pc' = "extract"
    /\ UNCHANGED <<registry, widgets, session_state, resetShown, thread, md_file_id,
                   handler, tool_files, calls, outcome>>

\* ----------------------------------------------------------- extraction
\* all attachments of the listed messages, in the order of lines 185-187
AllAttachments(data) == Concat([i \in 1..Len(data) |-> data[i].attachments])

\* lines 185-191 over the attachments that are left; budget is the number of
\* files.retrieve calls that succeed before one raises
RECURSIVE ScanAttachments(_, _)
ScanAttachments(atts, budget) ==
    IF atts = <<>> THEN [kind |-> "none", file_id |-> None, retrieved |-> <<>>]
    ELSE LET att == Head(atts) IN
         IF ~Truthy(att.file_id) THEN ScanAttachments(Tail(atts), budget)
         ELSE IF budget = 0
         THEN [kind |-> "raise", file_id |-> None, retrieved |-> <<att.file_id>>]
         ELSE IF EndsWith(att.filename, MdSuffix)
         THEN [kind |-> "found", file_id |-> att.file_id, retrieved |-> <<att.file_id>>]
         ELSE LET rest == ScanAttachments(Tail(atts), budget - 1)
              IN [rest EXCEPT !.retrieved = <<att.file_id>> \o @]

\* lines 193-198
RECURSIVE RegexFallback(_)
RegexFallback(data) ==
    IF data = <<>> THEN None
    ELSE IF PatternSearch(StrMsg(Head(data))) # None
    THEN PatternSearch(StrMsg(Head(data)))
    ELSE RegexFallback(Tail(data))

ExtractMdFileId_RegexFirst(data, budget) ==
    LET scan == ScanAttachments(AllAttachments(data), budget) IN
    IF RegexFallback(data) # None
    THEN [kind |-> "fallback", file_id |-> RegexFallback(data), retrieved |-> <<>>]
    ELSE scan

\* _extract_md_file_id once messages.data is known
ExtractMdFileId(data, budget) ==
    LET scan == ScanAttachments(AllAttachments(data), budget) IN
    IF scan.kind = "none"
    THEN [scan EXCEPT !.kind = "fallback", !.file_id = RegexFallback(data)]
    ELSE scan

\* attachments the scan can ask the provider about
Retrievable(data) ==
    Cardinality({i \in 1..Len(AllAttachments(data)) :
                    Truthy(AllAttachments(data)[i].file_id)})

RetrieveCalls(ids) == [i \in 1..Len(ids) |-> Call("files.retrieve", ids[i])]

\* lines 183-200
Extract ==
    /\ pc = "extract"
    /\ \E listed \in BOOLEAN :
        IF listed
        THEN \E budget \in 0..Retrievable(ListPage(messages[thread])) :
                LET res == ExtractMdFileId(ListPage(messages[thread]), budget) IN
                /\ calls' = Append(calls, Call("messages.list", thread))
                              \o RetrieveCalls(res.retrieved)
                /\ hist' = [hist EXCEPT !.listed = ListPage(messages[thread])]
                /\ IF res.kind = "raise"
                   THEN /\ Raise
                        /\ UNCHANGED md_file_id
                   ELSE /\ md_file_id' = res.file_id
                        /\ pc' = "store"
                        /\ UNCHANGED <<outcome, resetShown>>
        ELSE /\ calls' = Append(calls, Call("messages.list", thread))
             /\ Raise
             /\ UNCHANGED <<md_file_id, hist>>
    /\ UNCHANGED <<registry, widgets, session_state, thread, handler, provider>>

\* lines 202-204: st.error and st.stop
ReportNotFound ==
    /\ pc = "store"
    /\ md_file_id = None
    /\ pc' = "idle"
    /\ outcome' = "not_found"
    /\ resetShown' = FALSE
    /\ UNCHANGED <<registry, widgets, session_state, thread, md_file_id, handler, provider,
                   calls, hist>>

\* lines 207-209: what a fetched report leaves in the session
StoreReport_FlagOnly(ss, bytes) == [ss EXCEPT !.run_finished = True]
StoreReport(ss, bytes) ==
    [ss EXCEPT !.report_bytes = bytes,
               !.report_name = REPORT_NAME,
               !.run_finished = True]

\* lines 206-209
FetchReport ==
    /\ pc = "store"
    /\ md_file_id # None
    /\ calls' = Append(calls, Call("files.content", md_file_id))
    /\ \E ok \in BOOLEAN :
        IF ok /\ md_file_id \in files
        THEN /\ session_state' = StoreReport(session_state, Content(md_file_id))
             /\ hist' = [hist EXCEPT !.report_of = session_state.file_id]
             /\ pc' = "preview"
             /\ UNCHANGED <<outcome, resetShown>>
        ELSE /\ Raise
             /\ UNCHANGED <<session_state, hist>>
    /\ UNCHANGED <<registry, widgets, thread, md_file_id, handler, provider>>

\* --------------------------------------------------- preview and reset
\* lines 214 and 227: the Reset button is drawn inside the preview block
ResetRendered_Always(ss) == TRUE
ResetRendered(ss) == Truthy(ss.run_finished)

\* lines 214-227 when the Reset button was not the one clicked
Preview ==
    /\ pc = "preview"
    /\ ~(Truthy(session_state.run_finished) /\ reset_btn)
    /\ pc' = "idle"
    /\ IF Truthy(session_state.run_finished) /\ session_state.report_bytes = None
       THEN /\ outcome' = "uncaught"      \* None has no decode
            /\ resetShown' = FALSE
       ELSE /\ outcome' = "done"
            /\ resetShown' = ResetRendered(session_state)
    /\ UNCHANGED <<registry, widgets, session_state, thread, md_file_id, handler, provider,
                   calls, hist>>

\* lines 229-237: the deletion requests of the try block, in order, each
\* with the provider's answer ok[i]; the block ends at the first exception,
\* which reading an unassigned md_file_id also is
Cleanup(ss, md, ok) ==
    LET first == IF Truthy(ss.file_id)
                 THEN <<[call |-> Call("files.delete", ss.file_id), ok |-> ok[1]]>>
                 ELSE <<>>
        second == IF Truthy(md)
                  THEN <<[call |-> Call("files.delete", md), ok |-> ok[2]]>>
                  ELSE <<>>
        third == IF Truthy(ss.thread_id)
                 THEN <<[call |-> Call("threads.delete", ss.thread_id), ok |-> ok[3]]>>
                 ELSE <<>>
    IN  IF first # <<>> /\ ~ok[1] THEN first
        ELSE IF md = Unbound THEN first
        ELSE IF second # <<>> /\ ~ok[2] THEN first \o second
        ELSE first \o second \o third

\* the identifiers whose deletion the provider carried out
Deleted(res, op) ==
    {res[i].call.arg : i \in {j \in 1..Len(res) : res[j].ok /\ res[j].call.op = op}}

\* lines 238-239: the session after the handler, whatever the try block did
ClearSession_UnlessError(ss, res) ==
    IF \E i \in 1..Len(res) : ~res[i].ok THEN ss ELSE EmptySession
ClearSession(ss, res) == EmptySession

\* lines 227-240: the Reset Session handler, up to the rerun it asks for
ResetSession ==
    /\ pc = "preview"
    /\ Truthy(session_state.run_finished)
    /\ reset_btn
    /\ IF session_state.report_bytes = None
       THEN /\ Raise
            /\ UNCHANGED <<registry, session_state, widgets, thread, md_file_id, handler,
                           provider, calls, hist>>
       ELSE \E ok \in [1..3 -> BOOLEAN] :
            LET res == Cleanup(session_state, md_file_id, ok) IN
            /\ files' = files \ Deleted(res, "files.delete")
            /\ messages' = [t \in DOMAIN messages \ Deleted(res, "threads.delete")
                            |-> messages[t]]
            /\ tool_files' = [t \in DOMAIN messages' |-> tool_files[t]]
            /\ calls' = calls \o [i \in 1..Len(res) |-> res[i].call]
            /\ session_state' = ClearSession(session_state, res)
            /\ hist' = [hist EXCEPT !.cleared = TRUE, !.resets = @ + 1,
                          !.cleanup = res, !.cache_pre = cache,
                          !.created = 0, !.createCalls = 0, !.first_thread = None,
                          !.report_of = None]
            /\ pc' = "start"
            /\ run_btn' = FALSE
            /\ reset_btn' = FALSE
            /\ assistant' = Unbound
            /\ UNCHANGED <<zip_file, user_prompt, resetShown, thread, md_file_id,
                           handler, nextId, outcome, cache, assistants>>

Next ==
    \/ ChooseZip
    \/ Rerun
    \/ ClickRun
    \/ ClickReset
    \/ GetOrCreateAssistant
    \/ SessionInit
    \/ Upload
    \/ AcquireThread
    \/ AttachFile
    \/ PostMessage
    \/ StartStream
    \/ OnTextDelta
    \/ UntilDone
    \/ RunResult
    \/ Extract
    \/ ReportNotFound
    \/ FetchReport
    \/ Preview
    \/ ResetSession

Spec == Init /\ [][Next]_vars

\* the process over several sessions
NextProcess == Next \/ NewSession
SpecProcess == Init /\ [][NextProcess]_vars

\* ------------------------------------------------------------ properties
CallSet == {calls[i] : i \in 1..Len(calls)}
Issued(op) == {c \in CallSet : c.op = op}

\* No reset since the first thread identifier was stored: the session still
\* holds that identifier, and the run in progress retrieved it rather than
\* creating another
ThreadStable ==
    /\ hist.first_thread # None
         => Get(session_state, "thread_id") = hist.first_thread
    /\ Get(hist.pre, "thread_id") # None
         => /\ Issued("threads.create") = {}
            /\ \A c \in Issued("threads.retrieve") : c.arg = hist.pre.thread_id
            /\ thread \in {Unbound, hist.pre.thread_id}

\* C1 as stated: the thread identifier is stable between resets and
\* createThread is called at most once between session start and reset.
C1_CreateCalledOnce ==
    /\ ThreadStable
    /\ hist.createCalls <= 1

\* C1, amended: the thread identifier is stable between resets, createThread
\* succeeds at most once between session start and reset, and every run that
\* starts with a stored identifier calls retrieveThread on it; a createThread
\* call that raises stores nothing and is repeated by the next run.
C1_ThreadCreatedOnce ==
    /\ ThreadStable
    /\ hist.created <= 1
    /\ hist.created = 0 => Get(session_state, "thread_id") = None

\* a second run reuses the thread that the first run created
C1_Witness ==
    /\ hist.runs = 2
    /\ hist.resets = 0
    /\ pc = "attach"
    /\ Call("threads.retrieve", hist.first_thread) \in CallSet
    /\ thread = session_state.thread_id

\* the file whose bytes are held as the report
ReportFile(ss) == Tail(ss.report_bytes)

\* C2: a reset of a session that holds an archive handle, a report and a
\* thread issues deletion requests for the archive file, the report file
\* and the thread before it clears the session.
C2_ResetDeletesAll ==
    (/\ hist.cleared
     /\ Truthy(hist.pre.file_id)
     /\ Truthy(hist.pre.report_bytes)
     /\ Truthy(hist.pre.thread_id))
    => /\ Call("files.delete", hist.pre.file_id) \in CallSet
       /\ Call("files.delete", ReportFile(hist.pre)) \in CallSet
       /\ Call("threads.delete", hist.pre.thread_id) \in CallSet

\* C3: once the reset handler has run, every session field is absent or
\* None, through the rerun it triggers, whether or not a deletion failed.
C3_ResetClears ==
    hist.cleared => \A k \in Keys : Get(session_state, k) = None

\* a reset whose deletion request failed, after the rerun
C3_Witness ==
    /\ hist.cleared
    /\ pc = "idle"
    /\ session_state = NoneSession
    /\ \E i \in 1..Len(hist.cleanup) :
         hist.cleanup[i].call.op = "files.delete" /\ ~hist.cleanup[i].ok

\* C4: a run whose listed messages hold no Markdown attachment and no text
\* matching the identifier pattern reports report-not-found, fetches
\* nothing, and leaves the report fields and the completion flag empty.
C4_NotFoundLeavesEmpty ==
    (/\ pc \in {"store", "idle"}
     /\ run_btn
     /\ Issued("messages.list") # {}
     /\ outcome # "uncaught"
     /\ ScanAttachments(AllAttachments(hist.listed), Retrievable(hist.listed)).kind = "none"
     /\ RegexFallback(hist.listed) = None)
    => /\ Issued("files.content") = {}
       /\ pc = "idle" => outcome = "not_found"
       /\ session_state.report_bytes = None
       /\ session_state.report_name = None
       /\ session_state.run_finished = None

\* the archive handle that the upload of this execution returned
Uploaded == IF Issued("files.create") # {}
            THEN (CHOOSE c \in Issued("files.create") : TRUE).arg ELSE None

\* the run of this execution stored a report
Stored == run_btn /\ Issued("files.content") # {} /\ pc \in {"preview", "idle"}
          /\ outcome # "uncaught"

\* C5: after a successful second run without a reset in between, file_id is
\* the archive the second run uploaded and report_bytes is the content of
\* the report the second run produced.
C5_SecondRunReplaces ==
    (Stored /\ hist.runs = 2 /\ hist.resets = 0)
    => /\ session_state.file_id = Uploaded
       /\ hist.gen # None
       /\ session_state.report_bytes = Content(hist.gen)

\* C6: when the streamed run ends failed or cancelled, the messages are not
\* listed, nothing is fetched or stored, and the run does not set
\* run_finished.
C6_OnlyOnSuccess ==
    (run_btn /\ hist.status \in {"failed", "cancelled"})
    => /\ Issued("messages.list") = {}
       /\ Issued("files.content") = {}
       /\ session_state.report_bytes = hist.pre.report_bytes
       /\ session_state.run_finished = hist.pre.run_finished

\* C11: createAssistant succeeds at most once in the process; an execution
\* that begins with a cached handle gets that handle and issues no
\* createAssistant; a creation that fails ends the execution and caches
\* nothing.
C11_AssistantOnce ==
    /\ assistants <= 1
    /\ cache = None <=> assistants = 0
    /\ cache # None => cache = AssistantId(1)
    /\ hist.cache_pre # None
         => /\ Issued("assistants.create") = {}
            /\ assistant \in {Unbound, hist.cache_pre}
            /\ outcome # "startup"
    /\ outcome = "startup"
         => /\ pc = "idle"
            /\ cache = None
            /\ assistant = Unbound
            /\ Issued("assistants.create") # {}

\* a run of a later session that uses the handle cached in an earlier one
C11_Witness ==
    /\ hist.sessions = 2
    /\ hist.cache_pre # None
    /\ assistant = hist.cache_pre
    /\ run_btn
    /\ pc = "stream"
    /\ Issued("assistants.create") = {}

\* C12: when a reset has run, a deletion request has been issued for every
\* archive handle uploaded in the session, superseded ones included; a run
\* itself issues no deletion.
C12_AllUploadsDeleted ==
    /\ hist.cleared
         => \A f \in hist.uploads : Call("files.delete", f) \in CallSet
    /\ run_btn => Issued("files.delete") = {}

\* the text of a fragment: nothing when its value is absent
FragText(value) == IF value = None THEN <<>> ELSE value

\* C7: the sink is updated once per fragment, the N-th value pushed is the
\* concatenation of fragments 1..N, and each pushed value is a prefix of
\* the next.
C7_SinkAccumulates ==
    /\ Len(box) = Len(hist.frags)
    /\ \A n \in 1..Len(box) :
         box[n] = Concat([i \in 1..n |-> FragText(hist.frags[i])])
    /\ \A n \in 1..(Len(box) - 1) :
         /\ Len(box[n]) <= Len(box[n + 1])
         /\ box[n] = SubSeq(box[n + 1], 1, Len(box[n]))

\* a fragment with text and then one without a value: the text stays
C7_Witness ==
    /\ Len(box) >= 2
    /\ hist.frags[1] # None
    /\ hist.frags[2] = None
    /\ box[2] = hist.frags[1]

\* positions of the attachments whose file has a name ending in .md
MdPositions(atts) ==
    {i \in 1..Len(atts) :
        Truthy(atts[i].file_id) /\ EndsWith(atts[i].filename, MdSuffix)}

\* positions of the messages whose text form matches the identifier pattern
MatchPositions(data) ==
    {i \in 1..Len(data) : MatchStarts(StrMsg(data[i])) # {}}

\* C8: when the extraction returns, the identifier is that of the first
\* Markdown attachment in list order if there is one, whatever the texts
\* say; only otherwise is it the first pattern match, or None without one.
C8_AttachmentPreferred ==
    pc = "store" =>
        LET atts == AllAttachments(hist.listed) IN
        IF MdPositions(atts) # {}
        THEN md_file_id = atts[Min(MdPositions(atts))].file_id
        ELSE IF MatchPositions(hist.listed) # {}
        THEN md_file_id =
                PatternSearch(StrMsg(hist.listed[Min(MatchPositions(hist.listed))]))
        ELSE md_file_id = None

\* a Markdown attachment wins over a pattern match in a newer message
C8_Witness ==
    /\ pc = "store"
    /\ MdPositions(AllAttachments(hist.listed)) # {}
    /\ RegexFallback(hist.listed) # None
    /\ RegexFallback(hist.listed) # md_file_id
    /\ hist.listed[1].attachments = <<>>

\* an exception left the main flow of this execution
Aborted == run_btn /\ outcome = "uncaught"

\* C9: a provider failure in a run ends the execution there, so no later
\* call is issued; file_id and thread_id keep what the run wrote before
\* the failure, and every other session field is as it was before the run.
C9_FailureAborts ==
    Aborted =>
        /\ pc = "idle"
        /\ calls # <<>>
        /\ session_state =
             [hist.pre EXCEPT
                !.file_id = IF Uploaded # None THEN Uploaded ELSE @,
                !.thread_id = IF @ = None /\ thread # Unbound THEN thread ELSE @]

\* a second run fails after its upload: the new archive handle stays, the
\* first run's report stays
C9_Witness ==
    /\ Aborted
    /\ pc = "idle"
    /\ Uploaded # None
    /\ session_state.file_id = Uploaded
    /\ Truthy(hist.pre.file_id)
    /\ session_state.file_id # hist.pre.file_id
    /\ hist.pre.run_finished = True
    /\ session_state.report_bytes = hist.pre.report_bytes

\* C10: no provider error raised during a run leaves the script uncaught.
C10_ErrorsCaught == run_btn => outcome # "uncaught"

\* a run is between its upload and its terminal state
InFlight ==
    /\ run_btn
    /\ pc \in {"thread", "attach", "post", "run", "stream", "ended", "extract", "store"}

\* C13: while a run is in flight the Analyse button is disabled, so no
\* second run can be initiated for the session.
C13_RunDisabledInFlight == InFlight => RunDisabled(zip_file)

\* the provider calls of a run, one set of operations per step, in the order
\* of lines 125-175 and 184
RunOrder == << {"files.create"}, {"threads.create", "threads.retrieve"},
               {"threads.update"}, {"messages.create"}, {"runs.stream"},
               {"messages.list"} >>

\* the calls of the run itself, without the assistant lookup before it
RunCalls == SelectSeq(calls, LAMBDA c : c.op # "assistants.create")

\* C14: the calls of a run come in the order upload, thread create or
\* retrieve, attach, post, stream, list, then the attachment lookups and the
\* content fetch last; when the stream is started the thread's file list is
\* exactly the handle this run uploaded and the prompt is the newest message
\* of the thread.
C14_FixedOrder ==
    run_btn =>
        /\ \A i \in 1..Len(RunCalls) :
              IF i <= Len(RunOrder)
              THEN RunCalls[i].op \in RunOrder[i]
              ELSE \/ RunCalls[i].op = "files.retrieve"
                   \/ RunCalls[i].op = "files.content" /\ i = Len(RunCalls)
        /\ Issued("runs.stream") # {}
             => /\ Uploaded = session_state.file_id
                /\ pc \in {"stream", "ended"}
                     => /\ tool_files[thread] = <<Uploaded>>
                        /\ Head(messages[thread]) = Msg(<<>>, user_prompt)

\* the stream of a second run on the reused thread: the thread's file list is
\* the second archive alone
C14_Witness ==
    /\ run_btn
    /\ pc = "stream"
    /\ Truthy(hist.pre.file_id)
    /\ thread = hist.pre.thread_id
    /\ Uploaded # hist.pre.file_id
    /\ tool_files[thread] = <<Uploaded>>
    /\ Len(messages[thread]) > 1

\* C15: whenever run_finished is true, report_bytes is present and
\* report_name is the canonical file name.
C15_FinishedHasReport ==
    Get(session_state, "run_finished") = True
        => /\ Get(session_state, "report_bytes") # None
           /\ Get(session_state, "report_name") = REPORT_NAME

\* a first run has just stored its report and the preview was drawn
C15_Witness ==
    /\ Stored
    /\ pc = "idle"
    /\ outcome = "done"
    /\ hist.pre.run_finished = None
    /\ session_state.run_finished = True
    /\ session_state.report_bytes = Content(md_file_id)

\* C16: whenever an execution has ended with run_finished true, the stored
\* report was stored by the run that uploaded the archive held in file_id; a
\* later run that aborts or finds no report does not leave an earlier run's
\* report beside its own archive handle.
C16_ReportOfCurrentArchive ==
    pc = "idle" /\ Get(session_state, "run_finished") = True
        => hist.report_of = Get(session_state, "file_id")

\* a deletion request of the reset handler has been issued
DeletionIssued == Issued("files.delete") \union Issued("threads.delete") # {}

\* C17: the Reset button can be clicked, and its handler can run, only when
\* run_finished is true; deletion requests come from the reset handler
\* alone, never from a run.
C17_ResetNeedsFinished ==
    /\ pc = "idle" /\ resetShown => Get(session_state, "run_finished") = True
    /\ pc = "preview" /\ reset_btn => Get(session_state, "run_finished") = True
    /\ DeletionIssued => hist.cleared /\ ~run_btn

\* a first run uploaded its archive and created its thread, then failed: the
\* session holds both handles, run_finished is not true and there is no
\* Reset button to click
C17_Witness ==
    /\ Aborted
    /\ pc = "idle"
    /\ Truthy(session_state.file_id)
    /\ Truthy(session_state.thread_id)
    /\ session_state.run_finished = None
    /\ ~resetShown
    /\ ~DeletionIssued

====
